---- MODULE Spec2Model ----
(***************************************************************************)
(* iceminus: scan yaml files for lines containing sensitive words and      *)
(* comment them out.  Model of main, loadSensitive, processPath and        *)
(* processFile of main.go.  Text is a sequence of one-character strings.   *)
(***************************************************************************)
EXTENDS Integers, Sequences, FiniteSets, TLC

\* ---------------------------------------------------------------- bounds
MaxLen == 3        \* longest content of the file given as a single-file root
MaxSrcLen == 3     \* longest word-list source text
MaxEntries == 2    \* most entries below a directory root
MaxRuns == 2       \* how many times the program is run in succession
MaxBytes == 5      \* most bytes of the single-file root and the word-list source together
MaxTreeSrcLen == 1 \* longest word-list source text tried with the roots of EntryPool

NL == "\n"
FileChars == {"#", "a", "b", NL}
SrcChars == {"a", "#", " ", NL}

SeqsUpTo(S, n) == UNION {[1..k -> S] : k \in 0..n}

\* ------------------------------------------------------- string helpers
\* index of the first occurrence of character c in s, 0 when there is none
IndexOf(s, c) ==
  IF \E i \in 1..Len(s) : s[i] = c
    THEN CHOOSE i \in 1..Len(s) : s[i] = c /\ \A j \in 1..(i-1) : s[j] # c
    ELSE 0

\* index of the last occurrence of character c in s, 0 when there is none
LastIndexOf(s, c) ==
  IF \E i \in 1..Len(s) : s[i] = c
    THEN CHOOSE i \in 1..Len(s) : s[i] = c /\ \A j \in (i+1)..Len(s) : s[j] # c
    ELSE 0

HasPrefix(s, p) == Len(p) <= Len(s) /\ SubSeq(s, 1, Len(p)) = p

HasSuffix(s, p) == Len(p) <= Len(s) /\ SubSeq(s, Len(s) - Len(p) + 1, Len(s)) = p

Contains(s, w) == \E i \in 0..(Len(s) - Len(w)) : SubSeq(s, i + 1, i + Len(w)) = w

RECURSIVE Join(_)
Join(ls) == IF ls = <<>> THEN <<>> ELSE Head(ls) \o Join(Tail(ls))

Whitespace == {" ", "\t", "\r", NL}

RECURSIVE TrimLeft(_)
TrimLeft(s) == IF s # <<>> /\ Head(s) \in Whitespace THEN TrimLeft(Tail(s)) ELSE s

RECURSIVE TrimRight(_)
TrimRight(s) ==
  IF s # <<>> /\ s[Len(s)] \in Whitespace THEN TrimRight(SubSeq(s, 1, Len(s) - 1)) ELSE s

TrimSpace(s) == TrimRight(TrimLeft(s))

ToLowerChar(c) ==
  CASE c = "Y" -> "y"
    [] c = "A" -> "a"
    [] c = "M" -> "m"
    [] c = "L" -> "l"
    [] OTHER -> c

ToLower(s) == [i \in 1..Len(s) |-> ToLowerChar(s[i])]

\* filepath.Ext: the suffix of the last path element starting at its last dot
Ext(path) ==
  LET base == SubSeq(path, LastIndexOf(path, "/") + 1, Len(path))
      d == LastIndexOf(base, ".")
  IN IF d = 0 THEN <<>> ELSE SubSeq(base, d, Len(base))

\* ------------------------------------------------------- loadSensitive
\* the tokens of bufio.Scanner with the default ScanLines split
RECURSIVE ScanLines(_)
ScanLines(src) ==
  IF src = <<>> THEN <<>>
  ELSE LET i == IndexOf(src, NL)
       IN IF i = 0 THEN <<src>>
          ELSE <<SubSeq(src, 1, i - 1)>> \o ScanLines(SubSeq(src, i + 1, Len(src)))

RECURSIVE TrimmedNonEmpty(_)
TrimmedNonEmpty(toks) ==
  IF toks = <<>> THEN <<>>
  ELSE LET t == TrimSpace(Head(toks))
       IN IF t = <<>> THEN TrimmedNonEmpty(Tail(toks))
          ELSE <<t>> \o TrimmedNonEmpty(Tail(toks))

loadSensitive(src) == TrimmedNonEmpty(ScanLines(src))

\* ------------------------------------------------ processFile, per line
\* bufio.Reader.ReadString('\n') on the unread bytes
ReadString(rest) ==
  LET i == IndexOf(rest, NL)
  IN IF i = 0 THEN [line |-> rest, eof |-> TRUE, rest |-> <<>>]
     ELSE [line |-> SubSeq(rest, 1, i), eof |-> FALSE,
           rest |-> SubSeq(rest, i + 1, Len(rest))]

hasNL(rawLine) == HasSuffix(rawLine, <<NL>>)

Content(rawLine) == IF hasNL(rawLine) THEN SubSeq(rawLine, 1, Len(rawLine) - 1) ELSE rawLine

\* variant: a line counts as commented only when it starts with "# "
IsCommented_MarkerAndSpace(content) == HasPrefix(content, <<"#", " ">>)

IsCommented(content) == HasPrefix(content, <<"#">>)

\* variant: the first word of the list is never tried
Matched_SkipFirstWord(ws, content) ==
  IF ws = <<>> THEN <<>>
  ELSE SelectSeq(Tail(ws), LAMBDA w : w # <<>> /\ Contains(content, w))

\* variant: a word found is put in front of those found before it
Matched_Reversed(ws, content) ==
  LET m == SelectSeq(ws, LAMBDA w : w # <<>> /\ Contains(content, w))
  IN [i \in 1..Len(m) |-> m[Len(m) + 1 - i]]

\* the words of ws found in content, in the order of ws
RECURSIVE Matched(_, _)
Matched(ws, content) ==
  IF ws = <<>> THEN <<>>
  ELSE LET w == Head(ws)
       IN IF w # <<>> /\ Contains(content, w)
            THEN <<w>> \o Matched(Tail(ws), content)
            ELSE Matched(Tail(ws), content)

\* variant: the marker is put after a leading space
newLine_SpaceFirst(rawLine) ==
  <<" ", "#">> \o Content(rawLine) \o (IF hasNL(rawLine) THEN <<NL>> ELSE <<>>)

\* variant: the rewritten line always ends in a newline
newLine_AlwaysNL(rawLine) == <<"#", " ">> \o Content(rawLine) \o <<NL>>

newLine(rawLine) ==
  <<"#", " ">> \o Content(rawLine) \o (IF hasNL(rawLine) THEN <<NL>> ELSE <<>>)

\* variant: a matching line counts as matched only when it is rewritten
ProcLine_DryNoHit(rawLine, ws, dry) ==
  LET content == Content(rawLine)
      m == Matched(ws, content)
  IN IF IsCommented(content) THEN [out |-> rawLine, hit |-> FALSE, matched |-> <<>>]
     ELSE IF Len(m) > 0 /\ ~dry
       THEN [out |-> newLine(rawLine), hit |-> TRUE, matched |-> m]
       ELSE [out |-> rawLine, hit |-> FALSE, matched |-> <<>>]

\* variant: a line that is not rewritten is appended without its terminator
ProcLine_ContentOnly(rawLine, ws, dry) ==
  LET content == Content(rawLine)
      m == Matched(ws, content)
  IN IF IsCommented(content) THEN [out |-> content, hit |-> FALSE, matched |-> <<>>]
     ELSE IF Len(m) > 0
       THEN [out |-> IF dry THEN rawLine ELSE newLine(rawLine), hit |-> TRUE, matched |-> m]
       ELSE [out |-> content, hit |-> FALSE, matched |-> <<>>]

\* one pass of the loop body on a line that was read: what is appended to
\* outLines, whether the line counts as matched, and the words reported
ProcLine(rawLine, ws, dry) ==
  LET content == Content(rawLine)
      m == Matched(ws, content)
  IN IF IsCommented(content) THEN [out |-> rawLine, hit |-> FALSE, matched |-> <<>>]
     ELSE IF Len(m) > 0
       THEN [out |-> IF dry THEN rawLine ELSE newLine(rawLine), hit |-> TRUE, matched |-> m]
       ELSE [out |-> rawLine, hit |-> FALSE, matched |-> <<>>]

\* ---------------------------------------------------------------- state
VARIABLES
  pc,            \* position in main / processPath / processFile
  exitCode,      \* -1 while running, else the code given to os.Exit (0 at the end of main)
  run,           \* number of the current run of the program
  pathGiven,     \* --path is non-empty
  dryRun,        \* --dry-run
  words,         \* result of loadSensitive
  loadErr,       \* loadSensitive returned an error
  entries,       \* the root followed by what WalkDir visits below it, in walk order
  fs,            \* per entry: the file at that path
  tmp,           \* per entry: the file at that path + ".tmp_iceminus"
  idx,           \* the entry being visited
  stats,         \* procStats
  fOpen,         \* the read handle f of processFile is open
  rest,          \* bytes of f not yet read
  outLines, lineNo, modified, matchedLines, tmpData,
  retCnt, retErr,\* what processFile returned
  reports,       \* lines printed to stdout by processFile in this run
  ops,           \* file-system calls issued on path and tmp by the current processFile
  opened,        \* entries processFile was called on in this run
  fs0,           \* fs when the first run started
  fsRun          \* fs when the current run started

pfVars == <<rest, outLines, lineNo, modified, matchedLines, tmpData>>
envVars == <<pathGiven, dryRun, entries, fs0, loadErr>>
vars == <<pc, exitCode, run, pathGiven, dryRun, words, loadErr, entries, fs, tmp, idx, stats,
          fOpen, rest, outLines, lineNo, modified, matchedLines, tmpData,
          retCnt, retErr, reports, ops, opened, fs0, fsRun>>

NoFile == [exists |-> FALSE, data |-> <<>>]
File(d) == [exists |-> TRUE, data |-> d]

\* ------------------------------------------------------------ the inputs
RootFileName == <<"r", ".", "t", "x", "t">>
RootDirName == <<"r">>

\* what may lie below a directory root: path, kind and (for a file) its bytes
EntryPool == <<
  [name |-> <<"a", ".", "y", "m", "l">>, isDir |-> FALSE, data |-> <<"a", "#", NL, "#", "a", NL, "a">>],
  [name |-> <<"b", ".", "Y", "A", "M", "L">>, isDir |-> FALSE, data |-> <<"b", NL, "b", "a", NL>>],
  [name |-> <<"c", ".", "t", "x", "t">>, isDir |-> FALSE, data |-> <<"a", NL>>],
  [name |-> <<"d", ".", "y", "m", "l">>, isDir |-> TRUE, data |-> <<>>],
  [name |-> <<"d", ".", "y", "m", "l", "/", "e">>, isDir |-> FALSE, data |-> <<"a">>],
  [name |-> <<"f", ".", "y", "m", "l", ".", "b">>, isDir |-> FALSE, data |-> <<"a", NL>>],
  [name |-> <<"y", "m", "l">>, isDir |-> FALSE, data |-> <<"a", NL, "a">>] >>

\* a file lies in a directory that is listed too
PoolClosed(S) == 5 \in S => 4 \in S

RECURSIVE Pick(_, _)
Pick(S, i) ==
  IF i > Len(EntryPool) THEN <<>>
  ELSE IF i \in S THEN <<EntryPool[i]>> \o Pick(S, i + 1) ELSE Pick(S, i + 1)

Trees ==
  {<<[name |-> RootDirName, isDir |-> TRUE, data |-> <<>>]>> \o Pick(S, 1) :
     S \in {T \in SUBSET (1..Len(EntryPool)) : Cardinality(T) <= MaxEntries /\ PoolClosed(T)}}

SingleFiles ==
  {<<[name |-> RootFileName, isDir |-> FALSE, data |-> d]>> : d \in SeqsUpTo(FileChars, MaxLen)}
  \cup {<<EntryPool[i]>> : i \in {1, 3}}

Sources == SeqsUpTo(SrcChars, MaxSrcLen)

\* the word-list sources tried with the root at hand: those within MaxBytes
\* for the enumerated single file, the short ones for the roots of EntryPool
SourcesFor(es, f) ==
  IF Len(es) = 1 /\ es[1].name = RootFileName
    THEN {src \in Sources : Len(src) + Len(f[1].data) <= MaxBytes}
    ELSE SeqsUpTo(SrcChars, MaxTreeSrcLen)

NewStats == [FilesScanned |-> 0, FilesWithMatches |-> 0, TotalMatches |-> 0,
             OpsPerFile |-> <<>>]

\* the roots main is started on: no --path, a path that does not exist, a
\* single file, a directory
Roots ==
  {[entries |-> <<>>, fs |-> <<>>, pathGiven |-> FALSE],
   [entries |-> <<[name |-> RootFileName, isDir |-> FALSE]>>, fs |-> <<NoFile>>,
    pathGiven |-> TRUE]}
  \cup {[entries |-> [i \in 1..Len(t) |-> [name |-> t[i].name, isDir |-> t[i].isDir]],
         fs |-> [i \in 1..Len(t) |-> File(t[i].data)],
         pathGiven |-> TRUE] : t \in Trees \cup SingleFiles}

Init ==
  /\ pc = "main"
  /\ exitCode = -1
  /\ run = 1
  /\ dryRun \in BOOLEAN
  /\ words = <<>>
  /\ loadErr = FALSE
  /\ \E r \in Roots : entries = r.entries /\ fs = r.fs /\ pathGiven = r.pathGiven
  /\ tmp = [i \in 1..Len(entries) |-> NoFile]
  /\ fs0 = fs
  /\ fsRun = fs
  /\ idx = 0
  /\ stats = NewStats
  /\ fOpen = FALSE
  /\ rest = <<>> /\ outLines = <<>> /\ lineNo = 0 /\ modified = FALSE
  /\ matchedLines = 0 /\ tmpData = <<>>
  /\ retCnt = 0 /\ retErr = FALSE
  /\ reports = <<>>
  /\ ops = <<>>
  /\ opened = {}

\* ------------------------------------------------------------------ main
Exit(code) == pc' = "exit" /\ exitCode' = code

\* variant: the test for an empty word list is left out
Main_NoEmptyCheck ==
  /\ pc = "main"
  /\ UNCHANGED <<run, pathGiven, dryRun, entries, fs0, fs, tmp, idx, stats, fOpen, pfVars,
                 retCnt, retErr, reports, ops, opened, fsRun>>
  /\ IF ~pathGiven THEN Exit(2) /\ UNCHANGED <<words, loadErr>>
     ELSE \/ Exit(1) /\ loadErr' = TRUE /\ UNCHANGED words
          \/ \E src \in SourcesFor(entries, fs) :
               /\ words' = loadSensitive(src)
               /\ UNCHANGED loadErr
               /\ pc' = "processPath" /\ UNCHANGED exitCode

\* main up to the call of processPath: usage error, loadSensitive on the
\* word-list source (which may be unreadable), empty word list
Main ==
  /\ pc = "main"
  /\ UNCHANGED <<run, pathGiven, dryRun, entries, fs0, fs, tmp, idx, stats, fOpen, pfVars,
                 retCnt, retErr, reports, ops, opened, fsRun>>
  /\ IF ~pathGiven THEN Exit(2) /\ UNCHANGED <<words, loadErr>>
     ELSE \/ Exit(1) /\ loadErr' = TRUE /\ UNCHANGED words
          \/ \E src \in SourcesFor(entries, fs) :
               /\ words' = loadSensitive(src)
               /\ UNCHANGED loadErr
               /\ IF Len(words') = 0 THEN Exit(0)
                  ELSE pc' = "processPath" /\ UNCHANGED exitCode

\* ----------------------------------------------------------- processPath
\* variant: the extension is looked for anywhere in the path
IsYamlExt_Substring(path) ==
  \/ Contains(ToLower(path), <<".", "y", "a", "m", "l">>)
  \/ Contains(ToLower(path), <<".", "y", "m", "l">>)

IsYamlExt(path) == LET ext == ToLower(Ext(path))
                   IN ext = <<".", "y", "a", "m", "l">> \/ ext = <<".", "y", "m", "l">>

\* entering processFile(path, words, dryRun) on entry i
CallProcessFile(i) ==
  /\ idx' = i
  /\ stats' = [stats EXCEPT !.FilesScanned = @ + 1]
  /\ pc' = "open"
  /\ opened' = opened \cup {i}
  /\ ops' = <<>>

\* os.Stat(root) and the choice between the walk and the single file
ProcessPathStat ==
  /\ pc = "processPath"
  /\ UNCHANGED <<run, envVars, words, fs, tmp, fOpen, pfVars, retCnt, retErr, reports, fsRun>>
  /\ \/ Exit(1) /\ UNCHANGED <<idx, stats, opened, ops>>
     \/ /\ fs[1].exists
        /\ UNCHANGED exitCode
        /\ IF entries[1].isDir
             THEN pc' = "walk" /\ idx' = 1 /\ UNCHANGED <<stats, opened, ops>>
             ELSE CallProcessFile(1)

\* the walk function is handed an error for the entry
WalkError ==
  /\ pc = "walk" /\ idx <= Len(entries)
  /\ Exit(1)
  /\ UNCHANGED <<run, envVars, words, fs, tmp, idx, stats, fOpen, pfVars, retCnt, retErr,
                 reports, ops, opened, fsRun>>

WalkDir ==
  /\ pc = "walk" /\ idx <= Len(entries) /\ entries[idx].isDir
  /\ idx' = idx + 1
  /\ UNCHANGED <<pc, exitCode, run, envVars, words, fs, tmp, stats, fOpen, pfVars, retCnt,
                 retErr, reports, ops, opened, fsRun>>

WalkOther ==
  /\ pc = "walk" /\ idx <= Len(entries) /\ ~entries[idx].isDir
  /\ ~IsYamlExt(entries[idx].name)
  /\ idx' = idx + 1
  /\ UNCHANGED <<pc, exitCode, run, envVars, words, fs, tmp, stats, fOpen, pfVars, retCnt,
                 retErr, reports, ops, opened, fsRun>>

WalkYaml ==
  /\ pc = "walk" /\ idx <= Len(entries) /\ ~entries[idx].isDir
  /\ IsYamlExt(entries[idx].name)
  /\ CallProcessFile(idx)
  /\ UNCHANGED <<exitCode, run, envVars, words, fs, tmp, fOpen, pfVars, retCnt, retErr,
                 reports, fsRun>>

\* WalkDir has visited everything: processPath returns nil, main prints the summary
WalkEnd ==
  /\ pc = "walk" /\ idx > Len(entries)
  /\ Exit(0)
  /\ UNCHANGED <<run, envVars, words, fs, tmp, idx, stats, fOpen, pfVars, retCnt, retErr,
                 reports, ops, opened, fsRun>>

\* variant: an error of processFile is dropped and the walk goes on
AfterProcessFile_ContinueOnError ==
  /\ pc = "return"
  /\ UNCHANGED <<run, envVars, words, fs, tmp, fOpen, pfVars, retCnt, retErr, reports, ops,
                 opened, fsRun>>
  /\ stats' = IF ~retErr /\ retCnt > 0
                THEN [stats EXCEPT !.FilesWithMatches = @ + 1,
                                   !.TotalMatches = @ + retCnt,
                                   !.OpsPerFile = (idx :> retCnt) @@ @]
                ELSE stats
  /\ IF entries[1].isDir
       THEN pc' = "walk" /\ idx' = idx + 1 /\ UNCHANGED exitCode
       ELSE Exit(0) /\ UNCHANGED idx

\* variant: a file is counted as a file with matches whatever its count
AfterProcessFile_CountAll ==
  /\ pc = "return"
  /\ UNCHANGED <<run, envVars, words, fs, tmp, fOpen, pfVars, retCnt, retErr, reports, ops,
                 opened, fsRun>>
  /\ IF retErr THEN Exit(1) /\ UNCHANGED <<idx, stats>>
     ELSE /\ stats' = [stats EXCEPT !.FilesWithMatches = @ + 1,
                                    !.TotalMatches = @ + retCnt,
                                    !.OpsPerFile = (idx :> retCnt) @@ @]
          /\ IF entries[1].isDir
               THEN pc' = "walk" /\ idx' = idx + 1 /\ UNCHANGED exitCode
               ELSE Exit(0) /\ UNCHANGED idx

\* processFile has returned (cnt, err) to processPath
AfterProcessFile ==
  /\ pc = "return"
  /\ UNCHANGED <<run, envVars, words, fs, tmp, fOpen, pfVars, retCnt, retErr, reports, ops,
                 opened, fsRun>>
  /\ IF retErr THEN Exit(1) /\ UNCHANGED <<idx, stats>>
     ELSE /\ stats' = IF retCnt > 0
                        THEN [stats EXCEPT !.FilesWithMatches = @ + 1,
                                           !.TotalMatches = @ + retCnt,
                                           !.OpsPerFile = (idx :> retCnt) @@ @]
                        ELSE stats
          /\ IF entries[1].isDir
               THEN pc' = "walk" /\ idx' = idx + 1 /\ UNCHANGED exitCode
               ELSE Exit(0) /\ UNCHANGED idx

\* ----------------------------------------------------------- processFile
\* return (cnt, err); the deferred f.Close() runs
Return(cnt, err) == pc' = "return" /\ retCnt' = cnt /\ retErr' = err /\ fOpen' = FALSE

Goto(l) == pc' = l /\ UNCHANGED <<retCnt, retErr, fOpen>>

Log(op, ok) == ops' = Append(ops, [op |-> op, ok |-> ok])

Prefixes(d) == {SubSeq(d, 1, k) : k \in 0..Len(d)}

\* os.Open(path) and the initialisation of the locals
Open ==
  /\ pc = "open"
  /\ UNCHANGED <<exitCode, run, envVars, words, fs, tmp, idx, stats, reports, ops, opened, fsRun>>
  /\ \/ Return(0, TRUE) /\ UNCHANGED pfVars
     \/ /\ fs[idx].exists
        /\ pc' = "loop" /\ fOpen' = TRUE /\ UNCHANGED <<retCnt, retErr>>
        /\ rest' = fs[idx].data
        /\ outLines' = <<>> /\ lineNo' = 0 /\ modified' = FALSE /\ matchedLines' = 0
        /\ tmpData' = <<>>

\* variant: the test after the loop leaves out dryRun
AfterLoop_IgnoreDryRun(mod, cnt) == IF mod THEN Goto("WriteFile") ELSE Return(cnt, FALSE)

\* variant: the test after the loop leaves out modified
AfterLoop_AlwaysWrite(mod, cnt) == IF ~dryRun THEN Goto("WriteFile") ELSE Return(cnt, FALSE)

\* after the loop: the test "modified && !dryRun" and the final return
AfterLoop(mod, cnt) == IF mod /\ ~dryRun THEN Goto("WriteFile") ELSE Return(cnt, FALSE)

\* one pass of the for loop: read a line, classify it, report it, append it
Loop ==
  /\ pc = "loop"
  /\ UNCHANGED <<exitCode, run, envVars, words, fs, tmp, idx, stats, ops, opened, fsRun, tmpData>>
  /\ \/ Return(0, TRUE) /\ UNCHANGED <<rest, outLines, lineNo, modified, matchedLines, reports>>
     \/ LET r == ReadString(rest)
            p == ProcLine(r.line, words, dryRun)
        IN IF r.eof /\ Len(r.line) = 0
             THEN /\ AfterLoop(modified, matchedLines)
                  /\ UNCHANGED <<rest, outLines, lineNo, modified, matchedLines, reports>>
             ELSE /\ rest' = r.rest
                  /\ lineNo' = lineNo + 1
                  /\ outLines' = Append(outLines, p.out)
                  /\ modified' = (modified \/ p.hit)
                  /\ matchedLines' = IF p.hit THEN matchedLines + 1 ELSE matchedLines
                  /\ reports' = IF p.hit
                       THEN Append(reports, [file |-> idx, line |-> lineNo', matched |-> p.matched])
                       ELSE reports
                  /\ IF r.eof THEN AfterLoop(modified', matchedLines') ELSE Goto("loop")

fsFrame == <<exitCode, run, envVars, words, idx, stats, reports, opened, fsRun, rest,
             outLines, lineNo, modified, matchedLines>>

\* os.WriteFile(tmp, data, 0644): a failure leaves tmp as it was or holding
\* some prefix of data
WriteFile ==
  /\ pc = "WriteFile"
  /\ UNCHANGED <<fsFrame, fs, tmpData>>
  /\ LET data == Join(outLines)
     IN \/ /\ Log("WriteFile", TRUE)
           /\ tmp' = [tmp EXCEPT ![idx] = File(data)]
           /\ Goto("Rename1")
        \/ /\ Log("WriteFile", FALSE)
           /\ \/ UNCHANGED tmp
              \/ \E d \in Prefixes(data) : tmp' = [tmp EXCEPT ![idx] = File(d)]
           /\ Return(0, TRUE)

\* variant: a rename that succeeded is not followed by a return
Rename_NoReturn(failPc) ==
  /\ UNCHANGED <<fsFrame, tmpData>>
  /\ \/ /\ tmp[idx].exists
        /\ Log("Rename", TRUE)
        /\ fs' = [fs EXCEPT ![idx] = tmp[idx]]
        /\ tmp' = [tmp EXCEPT ![idx] = NoFile]
        /\ Goto(failPc)
     \/ /\ Log("Rename", FALSE)
        /\ UNCHANGED <<fs, tmp>>
        /\ Goto(failPc)

\* os.Rename(tmp, path): on success the function returns (matchedLines, nil)
Rename(failPc) ==
  /\ UNCHANGED <<fsFrame, tmpData>>
  /\ \/ /\ tmp[idx].exists
        /\ Log("Rename", TRUE)
        /\ fs' = [fs EXCEPT ![idx] = tmp[idx]]
        /\ tmp' = [tmp EXCEPT ![idx] = NoFile]
        /\ Return(matchedLines, FALSE)
     \/ /\ Log("Rename", FALSE)
        /\ UNCHANGED <<fs, tmp>>
        /\ Goto(failPc)

\* variant: after a failed removal the strategies are tried again from the first
Remove_StartOver(okPc, failPc) ==
  /\ UNCHANGED <<fsFrame, tmpData, tmp>>
  /\ \/ /\ fs[idx].exists
        /\ Log("Remove", TRUE)
        /\ fs' = [fs EXCEPT ![idx] = NoFile]
        /\ Goto(okPc)
     \/ /\ Log("Remove", FALSE)
        /\ UNCHANGED fs
        /\ Goto("Rename1")

\* os.Remove(path)
Remove(okPc, failPc) ==
  /\ UNCHANGED <<fsFrame, tmpData, tmp>>
  /\ \/ /\ fs[idx].exists
        /\ Log("Remove", TRUE)
        /\ fs' = [fs EXCEPT ![idx] = NoFile]
        /\ Goto(okPc)
     \/ /\ Log("Remove", FALSE)
        /\ UNCHANGED fs
        /\ Goto(failPc)

\* os.Chmod(path, 0644): its result is dropped by the caller and is logged
\* as ok; whether the mode changed shows only in the calls that follow
Chmod(nextPc) ==
  /\ UNCHANGED <<fsFrame, tmpData, tmp, fs>>
  /\ Log("Chmod", TRUE)
  /\ Goto(nextPc)

\* os.OpenFile(path, O_WRONLY|O_CREATE|O_TRUNC, 0644)
OpenFile(failPc) ==
  /\ UNCHANGED <<fsFrame, tmpData, tmp>>
  /\ \/ /\ Log("OpenFile", TRUE)
        /\ fs' = [fs EXCEPT ![idx] = File(<<>>)]
        /\ Goto("Write")
     \/ /\ Log("OpenFile", FALSE)
        /\ UNCHANGED fs
        /\ Goto(failPc)

Rename1 == pc = "Rename1" /\ Rename("Remove1")

Remove1 == pc = "Remove1" /\ Remove("Rename2", "Chmod1")

Rename2 == pc = "Rename2" /\ Rename("ReadFile")

Chmod1 == pc = "Chmod1" /\ Chmod("Remove2")

Remove2 == pc = "Remove2" /\ Remove("Rename3", "ReadFile")

Rename3 == pc = "Rename3" /\ Rename("ReadFile")

\* os.ReadFile(tmp)
ReadFile ==
  /\ pc = "ReadFile"
  /\ UNCHANGED <<fsFrame, tmp, fs>>
  /\ \/ /\ tmp[idx].exists
        /\ Log("ReadFile", TRUE)
        /\ tmpData' = tmp[idx].data
        /\ Goto("OpenFile1")
     \/ /\ Log("ReadFile", FALSE)
        /\ UNCHANGED tmpData
        /\ Goto("RemoveErr")

\* the os.Remove(path) evaluated for the error message, then return 0, err
RemoveErr ==
  /\ pc = "RemoveErr"
  /\ UNCHANGED <<fsFrame, tmpData, tmp>>
  /\ \/ /\ fs[idx].exists
        /\ Log("Remove", TRUE)
        /\ fs' = [fs EXCEPT ![idx] = NoFile]
     \/ /\ Log("Remove", FALSE)
        /\ UNCHANGED fs
  /\ Return(0, TRUE)

OpenFile1 == pc = "OpenFile1" /\ OpenFile("Chmod2")

Chmod2 == pc = "Chmod2" /\ Chmod("OpenFile2")

OpenFile2 ==
  /\ pc = "OpenFile2"
  /\ UNCHANGED <<fsFrame, tmpData, tmp>>
  /\ \/ /\ Log("OpenFile", TRUE)
        /\ fs' = [fs EXCEPT ![idx] = File(<<>>)]
        /\ Goto("Write")
     \/ /\ Log("OpenFile", FALSE)
        /\ UNCHANGED fs
        /\ Return(0, TRUE)

\* variant: the error of of.Write is dropped
Write_IgnoreError ==
  /\ pc = "Write"
  /\ UNCHANGED <<fsFrame, tmpData, tmp>>
  /\ \/ /\ Log("Write", TRUE)
        /\ fs' = [fs EXCEPT ![idx] = File(tmpData)]
     \/ /\ Log("Write", FALSE)
        /\ \E k \in 0..(Len(tmpData) - 1) :
             fs' = [fs EXCEPT ![idx] = File(SubSeq(tmpData, 1, k))]
  /\ Goto("RemoveTmp")

\* of.Write(tmpData) and of.Close(): a failed write leaves a proper prefix
Write ==
  /\ pc = "Write"
  /\ UNCHANGED <<fsFrame, tmpData, tmp>>
  /\ \/ /\ Log("Write", TRUE)
        /\ fs' = [fs EXCEPT ![idx] = File(tmpData)]
        /\ Goto("RemoveTmp")
     \/ /\ Log("Write", FALSE)
        /\ \E k \in 0..(Len(tmpData) - 1) :
             fs' = [fs EXCEPT ![idx] = File(SubSeq(tmpData, 1, k))]
        /\ Return(0, TRUE)

\* os.Remove(tmp), its result is dropped, then return matchedLines, nil
RemoveTmp ==
  /\ pc = "RemoveTmp"
  /\ UNCHANGED <<fsFrame, tmpData, fs>>
  /\ \/ /\ tmp[idx].exists
        /\ Log("RemoveTmp", TRUE)
        /\ tmp' = [tmp EXCEPT ![idx] = NoFile]
     \/ /\ Log("RemoveTmp", FALSE)
        /\ UNCHANGED tmp
  /\ Return(matchedLines, FALSE)

\* ---------------------------------------------------- the run after a run
\* the program is started again with the same arguments and the same word
\* list after a run that ended with exit code 0
Rerun ==
  /\ pc = "exit" /\ exitCode = 0 /\ run < MaxRuns /\ Len(words) > 0
  /\ pc' = "processPath"
  /\ exitCode' = -1
  /\ run' = run + 1
  /\ stats' = NewStats
  /\ reports' = <<>>
  /\ ops' = <<>>
  /\ opened' = {}
  /\ idx' = 0
  /\ fsRun' = fs
  /\ UNCHANGED <<envVars, words, fs, tmp, fOpen, pfVars, retCnt, retErr>>

Next ==
  \/ Main
  \/ ProcessPathStat
  \/ WalkError
  \/ WalkDir
  \/ WalkOther
  \/ WalkYaml
  \/ WalkEnd
  \/ AfterProcessFile
  \/ Open
  \/ Loop
  \/ WriteFile
  \/ Rename1
  \/ Remove1
  \/ Rename2
  \/ Chmod1
  \/ Remove2
  \/ Rename3
  \/ ReadFile
  \/ RemoveErr
  \/ OpenFile1
  \/ Chmod2
  \/ OpenFile2
  \/ Write
  \/ RemoveTmp
  \/ Rerun

Spec == Init /\ [][Next]_vars

\* the whole line loop of processFile on the bytes d as one function: the
\* lines appended to outLines, the matched-line count and the printed reports
RECURSIVE ScanFrom(_, _, _, _)
ScanFrom(bytes, ws, dry, no) ==
  LET r == ReadString(bytes)
      none == [outLines |-> <<>>, matchedLines |-> 0, reports |-> <<>>]
  IN IF r.eof /\ Len(r.line) = 0 THEN none
     ELSE LET p == ProcLine(r.line, ws, dry)
              t == IF r.eof THEN none ELSE ScanFrom(r.rest, ws, dry, no + 1)
          IN [outLines |-> <<p.out>> \o t.outLines,
              matchedLines |-> (IF p.hit THEN 1 ELSE 0) + t.matchedLines,
              reports |-> (IF p.hit THEN <<[line |-> no + 1, matched |-> p.matched]>>
                           ELSE <<>>) \o t.reports]

Scan(d, ws, dry) == ScanFrom(d, ws, dry, 0)

\* ------------------------------------------------- vocabulary of the claims
ReplacePcs == {"WriteFile", "Rename1", "Remove1", "Rename2", "Chmod1", "Remove2", "Rename3",
               "ReadFile", "RemoveErr", "OpenFile1", "Chmod2", "OpenFile2", "Write",
               "RemoveTmp"}

\* the locals of processFile hold the scan of entry idx
LocalsValid == pc = "loop" \/ pc \in ReplacePcs \/ (pc = "return" /\ ~retErr)

\* the line loop of processFile on entry idx has run to the end of the file
LoopDone == pc \in ReplacePcs \/ (pc = "return" /\ (~retErr \/ ops # <<>>))

\* physical lines, told from the positions of the newlines
LineStarts(d) == {s \in 1..Len(d) : s = 1 \/ d[s - 1] = NL}

LineEnd(d, s) ==
  CHOOSE e \in s..Len(d) : (d[e] = NL \/ e = Len(d)) /\ \A j \in s..(e - 1) : d[j] # NL

PhysLines(d) ==
  [k \in 1..Cardinality(LineStarts(d)) |->
     LET s == CHOOSE x \in LineStarts(d) : Cardinality({y \in LineStarts(d) : y < x}) = k - 1
     IN SubSeq(d, s, LineEnd(d, s))]

Terminated(l) == l # <<>> /\ l[Len(l)] = NL

Text(l) == IF Terminated(l) THEN SubSeq(l, 1, Len(l) - 1) ELSE l

StartsWithHash(l) == l # <<>> /\ l[1] = "#"

HasWord(l, ws) == \E k \in 1..Len(ws) : Contains(Text(l), ws[k])

\* a line that is to be commented out
ToRedact(l, ws) == ~StartsWithHash(l) /\ HasWord(l, ws)

\* the reports printed for entry i, without the path
ReportsOf(i) ==
  LET mine == SelectSeq(reports, LAMBDA r : r.file = i)
  IN [k \in 1..Len(mine) |-> [line |-> mine[k].line, matched |-> mine[k].matched]]

IsFile(i) == ~entries[i].isDir

TypeOK ==
  /\ run \in 1..MaxRuns
  /\ exitCode \in {-1, 0, 1, 2}
  /\ lineNo = Len(outLines)
  /\ LocalsValid => outLines = SubSeq(Scan(fsRun[idx].data, words, dryRun).outLines, 1, lineNo)
  /\ LocalsValid => SubSeq(PhysLines(fsRun[idx].data), 1, lineNo)
                      = SubSeq(Scan(fsRun[idx].data, words, TRUE).outLines, 1, lineNo)

\* ================================================================ claims

\* C1: in apply mode the target file holds, at every point of processFile
\* and after it returns, either exactly its original bytes or exactly the
\* complete new bytes; it is never absent, truncated or partially written.
C1_OriginalOrNewBytes ==
  ~dryRun =>
    \A i \in 1..Len(entries) :
      IsFile(i) =>
        \/ fs[i] = fsRun[i]
        \/ fs[i] = File(Join(Scan(fsRun[i].data, words, FALSE).outLines))

\* C2: idempotence. In the apply-mode run that follows an apply-mode run no
\* line is matched, nothing is reported, no file-system call is issued and
\* every file keeps the bytes the first run left.
C2_Idempotent ==
  (run > 1 /\ ~dryRun) =>
    /\ reports = <<>>
    /\ ops = <<>>
    /\ fs = fsRun
    /\ stats.TotalMatches = 0
    /\ (pc = "return" /\ ~retErr) => (retCnt = 0 /\ matchedLines = 0)

C2_Witness ==
  /\ run > 1 /\ ~dryRun /\ pc = "return" /\ ~retErr
  /\ fs[idx] # fs0[idx]
  /\ \E k \in 1..lineNo : HasWord(outLines[k], words)

\* C3: dry-run purity. With dryRun set no file-system call is ever issued:
\* no temporary file exists and every file has the bytes it started with.
C3_DryRunPure ==
  dryRun =>
    /\ ops = <<>>
    /\ fs = fs0
    /\ \A i \in 1..Len(entries) : ~tmp[i].exists
    /\ pc \notin ReplacePcs

C3_Witness ==
  /\ dryRun /\ pc = "exit" /\ exitCode = 0
  /\ stats.TotalMatches > 0
  /\ fs = fs0

\* C4: the matched-line count and the reports of processFile on a file are
\* those the run with the other value of dryRun produces on the same bytes.
C4_ReportsIgnoreDryRun ==
  LoopDone =>
    LET other == Scan(fsRun[idx].data, words, ~dryRun)
    IN /\ matchedLines = other.matchedLines
       /\ ReportsOf(idx) = other.reports
       /\ (pc = "return" /\ ~retErr) => retCnt = other.matchedLines

C4_Witness ==
  /\ dryRun /\ pc = "return" /\ ~retErr
  /\ retCnt >= 1
  /\ \E k \in 1..Len(reports) : Len(reports[k].matched) >= 2

\* no physical line of d is to be commented out
NothingToRedact(d, ws) ==
  \A k \in 1..Len(PhysLines(d)) : ~ToRedact(PhysLines(d)[k], ws)

\* C5: while processFile works on a file none of whose lines is to be
\* redacted it issues no file-system call and the file keeps its bytes, in
\* both modes.
C5_UnmatchedUntouched ==
  (pc \in {"open", "loop", "return"} \cup ReplacePcs /\ NothingToRedact(fsRun[idx].data, words)) =>
    /\ ops = <<>>
    /\ pc \notin ReplacePcs
    /\ fs[idx] = fsRun[idx]
    /\ (pc = "return" /\ ~retErr) => retCnt = 0

C5_Witness ==
  /\ pc = "return" /\ ~retErr /\ ~dryRun /\ run = 1
  /\ NothingToRedact(fsRun[idx].data, words)
  /\ \E k \in 1..lineNo : StartsWithHash(outLines[k]) /\ HasWord(outLines[k], words)
  /\ ~Terminated(fs[idx].data)
  /\ fs[idx] = fs0[idx]

\* C6: a line whose first character is '#' is never reported, never counted
\* and is appended to the output as it was read.
C6_CommentSkip ==
  LocalsValid =>
    LET ls == PhysLines(fsRun[idx].data)
    IN /\ \A k \in 1..lineNo :
            StartsWithHash(ls[k]) =>
              /\ outLines[k] = ls[k]
              /\ \A j \in 1..Len(reports) : ~(reports[j].file = idx /\ reports[j].line = k)
       /\ matchedLines = Len(ReportsOf(idx))
       /\ matchedLines <= Cardinality({k \in 1..lineNo : ~StartsWithHash(ls[k])})

C6_Witness ==
  /\ LocalsValid /\ ~dryRun
  /\ \E k \in 1..lineNo :
       /\ StartsWithHash(PhysLines(fsRun[idx].data)[k])
       /\ HasWord(PhysLines(fsRun[idx].data)[k], words)
  /\ matchedLines > 0

\* a line with the marker put in front and its terminator kept
Redacted(l) == <<"#", " ">> \o Text(l) \o (IF Terminated(l) THEN <<NL>> ELSE <<>>)

\* C7: in apply mode a line to redact is rewritten to "# " + its content +
\* its original terminator (one newline if it had one, none if it had none),
\* and these are the bytes the file holds after a successful return.
C7_MarkerAndTerminator ==
  (LocalsValid /\ ~dryRun) =>
    LET ls == PhysLines(fsRun[idx].data)
    IN /\ \A k \in 1..lineNo : ToRedact(ls[k], words) => outLines[k] = Redacted(ls[k])
       /\ (pc = "return" /\ retCnt > 0) =>
            fs[idx].data = Join([k \in 1..Len(ls) |->
                                   IF ToRedact(ls[k], words) THEN Redacted(ls[k]) ELSE ls[k]])

C7_Witness ==
  /\ pc = "return" /\ ~retErr /\ ~dryRun /\ retCnt >= 2
  /\ ToRedact(PhysLines(fsRun[idx].data)[lineNo], words)
  /\ ~Terminated(fs[idx].data)
  /\ fs[idx] # fsRun[idx]

\* the spellings of the two extensions in every letter case
YamlSpellings ==
  {<<".", y, a, m, l>> : y \in {"y", "Y"}, a \in {"a", "A"}, m \in {"m", "M"}, l \in {"l", "L"}}
  \cup {<<".", y, m, l>> : y \in {"y", "Y"}, m \in {"m", "M"}, l \in {"l", "L"}}

Selected(i) ==
  /\ IsFile(i)
  /\ entries[1].isDir => \E e \in YamlSpellings : HasSuffix(entries[i].name, e)

\* C8: below a directory root processFile is called only on entries that
\* are not directories and whose name ends, in any letter case, in .yaml or
\* .yml; every other file keeps its bytes; a single-file root is processed
\* whatever its extension.
C8_FileSelection ==
  /\ \A i \in opened : Selected(i)
  /\ \A i \in 1..Len(entries) : ~Selected(i) => (fs[i] = fs0[i] /\ ~tmp[i].exists)
  /\ (Len(entries) > 0 /\ IsFile(1) /\ pc \in {"open", "loop", "return"} \cup ReplacePcs) =>
       opened = {1}

C8_Witness ==
  /\ pc = "exit" /\ exitCode = 0 /\ ~dryRun
  /\ entries[1].isDir
  /\ \E i \in opened : entries[i].name # ToLower(entries[i].name) /\ fs[i] # fs0[i]
  /\ \E j \in 1..Len(entries) : IsFile(j) /\ j \notin opened /\ HasWord(fs[j].data, words)

C8_WitnessSingleFile ==
  /\ pc = "exit" /\ exitCode = 0 /\ ~dryRun
  /\ entries[1].name = RootFileName /\ fs[1] # fs0[1]

\* the k-th file-system call of the current processFile
Op(k) == ops[k].op

FirstAt(o) == IF \E k \in 1..Len(ops) : Op(k) = o
                THEN CHOOSE k \in 1..Len(ops) : Op(k) = o /\ \A j \in 1..(k - 1) : Op(j) # o
                ELSE 0

Overwrite == {"ReadFile", "OpenFile", "Write", "RemoveTmp"}

\* C9: the strategies are tried in their order and a later one only after
\* the earlier one failed: the temporary file is written first; then rename;
\* then delete and rename; if the deletion failed, chmod, delete, rename;
\* the overwrite (read temp, open, write, delete temp) only after all of
\* these failed; nothing is issued after a rename that succeeded.
C9_StrategyOrder ==
  \A k \in 1..Len(ops) :
    /\ k = 1 => Op(k) = "WriteFile"
    /\ k > 1 => (ops[1].ok /\ Op(k) # "WriteFile")
    /\ k = 2 => Op(k) = "Rename"
    /\ (Op(k) = "Rename" /\ ops[k].ok) => k = Len(ops)
    /\ (Op(k) = "Rename" /\ k > 2) => (Op(k - 1) = "Remove" /\ ops[k - 1].ok)
    /\ (Op(k) = "Remove" /\ FirstAt("ReadFile") \in {0} \cup (k + 1)..Len(ops)) =>
         \/ k = 3 /\ ~ops[2].ok
         \/ k = 5 /\ Op(3) = "Remove" /\ ~ops[3].ok /\ Op(4) = "Chmod"
    /\ (Op(k) = "Chmod" /\ FirstAt("ReadFile") \in {0} \cup (k + 1)..Len(ops)) =>
         (k = 4 /\ Op(3) = "Remove" /\ ~ops[3].ok)
    /\ Op(k) = "ReadFile" =>
         /\ k = FirstAt("ReadFile")
         /\ \A j \in 1..(k - 1) : Op(j) \notin Overwrite
         /\ \A j \in 1..(k - 1) : Op(j) = "Rename" => ~ops[j].ok
         /\ \/ k = 5 /\ Op(3) = "Remove" /\ ops[3].ok /\ Op(4) = "Rename"
            \/ k = 6 /\ Op(5) = "Remove" /\ ~ops[5].ok
            \/ k = 7 /\ Op(5) = "Remove" /\ ops[5].ok /\ Op(6) = "Rename"
    /\ Op(k) = "OpenFile" => \E j \in 1..(k - 1) : Op(j) = "ReadFile" /\ ops[j].ok
    /\ Op(k) = "Write" => (Op(k - 1) = "OpenFile" /\ ops[k - 1].ok)
    /\ Op(k) = "RemoveTmp" => (Op(k - 1) = "Write" /\ ops[k - 1].ok /\ k = Len(ops))

C9_Witness ==
  /\ pc = "return" /\ ~retErr
  /\ Len(ops) = 11
  /\ Op(4) = "Chmod" /\ Op(6) = "ReadFile" /\ Op(11) = "RemoveTmp"
  /\ fs[idx].data = Join(outLines)

\* C10: the read handle on the target file is closed before the temporary
\* file is written and before any rename, remove or overwrite of the target.
C10_ReadClosedBeforeWrite == (pc \in ReplacePcs \/ ops # <<>>) => ~fOpen

\* processFile is at work on entry idx, or has just returned
InProcessFile == pc \in {"open", "loop", "return"} \cup ReplacePcs

\* the numbers of the physical lines of d that are to be commented out
RedactLines(d, ws) == {k \in 1..Len(PhysLines(d)) : ToRedact(PhysLines(d)[k], ws)}

\* C11: in both modes a report is printed for every line to redact of a
\* file, and all of them are printed before the first file-system call of
\* processFile on that file (temp write, rename, remove, overwrite).
C11_ReportsBeforeMutation ==
  /\ pc \in {"open", "loop"} => (ops = <<>> /\ fs[idx] = fsRun[idx])
  /\ (InProcessFile /\ (LoopDone \/ ops # <<>>)) =>
       /\ {ReportsOf(idx)[k].line : k \in 1..Len(ReportsOf(idx))}
            = RedactLines(fsRun[idx].data, words)
       /\ \A k \in 1..Len(reports) :
            /\ reports[k].matched # <<>>
            /\ \A j \in 1..Len(reports[k].matched) :
                 Contains(Text(PhysLines(fsRun[reports[k].file].data)[reports[k].line]),
                          reports[k].matched[j])

C11_Witness ==
  /\ pc = "WriteFile" /\ ops = <<>>
  /\ Len(ReportsOf(idx)) >= 2
  /\ fs[idx] = fsRun[idx]

C11_WitnessDryRun ==
  /\ pc = "return" /\ dryRun /\ ~retErr
  /\ Len(ReportsOf(idx)) >= 2

\* the bytes of d with every line to redact commented out
Rewritten(d, ws) ==
  Join([k \in 1..Len(PhysLines(d)) |->
          IF ToRedact(PhysLines(d)[k], ws) THEN Redacted(PhysLines(d)[k])
          ELSE PhysLines(d)[k]])

\* processFile went through entry j without an error
Succeeded(j) ==
  /\ ~dryRun => fs[j] = File(Rewritten(fsRun[j].data, words))
  /\ RedactLines(fsRun[j].data, words) # {} => j \in DOMAIN stats.OpsPerFile

\* C12: an error of the walk or of processFile ends the scan at once: a
\* later entry is visited only while every file before it went through
\* without error, the run ends with exit code 0 only if every file did, no
\* entry after the one that failed is opened or changed, and the files
\* rewritten before it keep their new bytes.
C12_AbortAtOnce ==
  /\ (pc \in {"walk", "exit"} \/ InProcessFile) =>
       \A j \in opened : j < idx => Succeeded(j)
  /\ (pc = "exit" /\ exitCode = 0) => \A j \in opened : Succeeded(j)
  /\ \A j \in 1..Len(entries) :
       j > idx => (j \notin opened /\ fs[j] = fsRun[j] /\ (run = 1 => tmp[j] = NoFile))

C12_Witness ==
  /\ pc = "exit" /\ exitCode = 1 /\ ~dryRun
  /\ Len(entries) = 3 /\ idx = 3 /\ opened = {2, 3}
  /\ fs[2] # fsRun[2] /\ Succeeded(2)
  /\ ops # <<>> /\ ~Succeeded(3)

\* C13: no file is opened, read or changed unless the word list was loaded
\* and is not empty: a load error ends the run with a non-zero exit code,
\* an empty word list ends it with exit code 0, both before any scan.
C13_NoScanWithoutWords ==
  /\ (pc \notin {"main", "exit"} \/ opened # {} \/ fs # fs0 \/ reports # <<>>
        \/ stats # NewStats \/ ops # <<>>) => (~loadErr /\ Len(words) > 0)
  /\ (pc = "exit" /\ loadErr) => exitCode = 1
  /\ (pc = "exit" /\ pathGiven /\ ~loadErr /\ Len(words) = 0) => exitCode = 0

C13_Witness ==
  /\ pc = "exit" /\ exitCode = 0 /\ ~loadErr /\ Len(words) = 0 /\ ~dryRun
  /\ Len(entries) = 1 /\ fs[1].exists /\ Len(fs[1].data) > 0
  /\ fs = fs0 /\ opened = {}

C13_WitnessLoadError ==
  /\ pc = "exit" /\ exitCode = 1 /\ loadErr
  /\ Len(entries) > 1 /\ fs = fs0 /\ opened = {}

C15_LinesPreserved ==
  (pc = "return" /\ ~retErr /\ ~dryRun /\ retCnt > 0) =>
    LET in == PhysLines(fsRun[idx].data)
        out == PhysLines(fs[idx].data)
    IN /\ Len(out) = Len(in)
       /\ \A k \in 1..Len(in) :
            IF ToRedact(in[k], words)
              THEN Len(out[k]) = Len(in[k]) + 2 /\ out[k][1] = "#" /\ out[k][2] = " "
              ELSE out[k] = in[k]
       /\ Join([k \in 1..Len(out) |->
                  IF ToRedact(in[k], words) THEN SubSeq(out[k], 3, Len(out[k])) ELSE out[k]])
            = fsRun[idx].data

C15_Witness ==
  /\ pc = "return" /\ ~retErr /\ ~dryRun /\ retCnt > 0
  /\ Len(PhysLines(fsRun[idx].data)) >= 3
  /\ \E k \in 1..Len(PhysLines(fsRun[idx].data)) :
       ~ToRedact(PhysLines(fsRun[idx].data)[k], words)
  /\ ~Terminated(fs[idx].data)

\* the sum of the values of a map to numbers
RECURSIVE SumOf(_)
SumOf(f) ==
  IF DOMAIN f = {} THEN 0
  ELSE LET i == CHOOSE x \in DOMAIN f : TRUE
       IN f[i] + SumOf([j \in DOMAIN f \ {i} |-> f[j]])

\* C16: in every state OpsPerFile has an entry only for files with a count
\* of at least 1, FilesWithMatches is the number of its entries,
\* TotalMatches the sum of its values, and FilesWithMatches is at most
\* FilesScanned.
C16_StatsConsistent ==
  /\ \A i \in DOMAIN stats.OpsPerFile :
       /\ stats.OpsPerFile[i] >= 1
       /\ i \in opened
       /\ stats.OpsPerFile[i] = Cardinality(RedactLines(fsRun[i].data, words))
  /\ stats.FilesWithMatches = Cardinality(DOMAIN stats.OpsPerFile)
  /\ stats.TotalMatches = SumOf(stats.OpsPerFile)
  /\ stats.FilesWithMatches <= stats.FilesScanned
  /\ stats.FilesScanned = Cardinality(opened)

C16_Witness ==
  /\ pc = "exit" /\ exitCode = 0
  /\ Cardinality(DOMAIN stats.OpsPerFile) = 2
  /\ stats.TotalMatches >= 3

C16_WitnessNoMatch ==
  /\ pc = "exit" /\ exitCode = 0
  /\ stats.FilesScanned = 2 /\ stats.FilesWithMatches = 1

\* C17: within a file every line to redact is reported exactly once, the
\* reports come in strictly increasing line number, lines are numbered from
\* 1 counting every physical line, and a report lists exactly the words of
\* the list that occur in the content of the line, in the order of the list.
C17_ReportsExact ==
  LocalsValid =>
    LET ls == PhysLines(fsRun[idx].data)
        rs == ReportsOf(idx)
    IN /\ \A k \in 1..Len(rs) :
            /\ rs[k].line \in 1..lineNo
            /\ ToRedact(ls[rs[k].line], words)
            /\ rs[k].matched = SelectSeq(words, LAMBDA w : Contains(Text(ls[rs[k].line]), w))
            /\ k > 1 => rs[k - 1].line < rs[k].line
       /\ \A n \in 1..lineNo :
            ToRedact(ls[n], words) => Cardinality({k \in 1..Len(rs) : rs[k].line = n}) = 1

C17_Witness ==
  /\ LocalsValid /\ pc = "return"
  /\ \E k \in 1..Len(reports) :
       /\ Len(reports[k].matched) = 2
       /\ reports[k].matched[1] # reports[k].matched[2]
       /\ reports[k].matched = words

C17_WitnessLineNumber ==
  /\ LocalsValid /\ pc = "return"
  /\ Len(ReportsOf(idx)) = 2
  /\ ReportsOf(idx)[1].line = 1 /\ ReportsOf(idx)[2].line = 3

\* C18: when processFile returns success in apply mode the file
\* path + ".tmp_iceminus" does not exist.
C18_TempGoneOnSuccess == (pc = "return" /\ ~retErr /\ ~dryRun) => ~tmp[idx].exists

\* the most steps processFile can still take from where it is
StepsLeft ==
  CASE pc = "open" -> Len(fs[idx].data) + 15
    [] pc = "loop" -> Len(rest) + 14
    [] pc = "WriteFile" -> 12
    [] pc = "Rename1" -> 11
    [] pc = "Remove1" -> 10
    [] pc = "Chmod1" -> 9
    [] pc = "Remove2" -> 8
    [] pc \in {"Rename2", "Rename3"} -> 7
    [] pc = "ReadFile" -> 6
    [] pc = "OpenFile1" -> 5
    [] pc = "Chmod2" -> 4
    [] pc = "OpenFile2" -> 3
    [] pc = "Write" -> 2
    [] pc \in {"RemoveTmp", "RemoveErr"} -> 1
    [] OTHER -> 0

\* C19: processFile terminates whatever fails: every step it takes, a pass
\* of the line loop or a file-system call, lowers the number of steps it
\* can still take, which starts from the length of the file plus a
\* constant and is 0 exactly when it has returned.
C19_Terminates ==
  [][(pc \in {"open", "loop"} \cup ReplacePcs) =>
       (StepsLeft' < StepsLeft /\ (StepsLeft' = 0 <=> pc' = "return"))]_vars

C19_Witness ==
  /\ pc = "return" /\ ~retErr
  /\ Len(ops) = 12 /\ lineNo >= 2
  /\ fs[idx].data = Join(outLines)

====
